---- MODULE Spec2Model ----
(***************************************************************************)
(* icefeed: the play loop of IcecastStreamer (src/main.cpp, the variant    *)
(* with a music directory, lines 282-533).  One action per step of the     *)
(* single thread: main, run's start, one directory scan, one attempt to    *)
(* open a track, one iteration of the packet loop, the end of the loop.    *)
(* The media library and the publisher are the environment: what they      *)
(* return is drawn from small sets in each action.                         *)
(***************************************************************************)
EXTENDS Integers, Sequences, FiniteSets, TLC

(* ------------------------------ bounds -------------------------------- *)

\* int64_t is modelled IntBits wide, two's complement.
IntBits == 8
\* Audio packets handed to the publisher over one run.
MaxPackets == 3
\* Calls of stream_file over one run.
MaxAttempts == 3
\* Directory scans over one run.
MaxScans == 3
\* Non-audio packets read from one track.
MaxOther == 1
\* The wall clock's reading when main starts, in microseconds.
Epoch == 1000000

(* --------------------------- program constants ------------------------ *)

AV_TIME_BASE == 1000000
EmptyWait == 5000000
Backoff == 1000000

Int64Min == -(2 ^ (IntBits - 1))
Int64Max == (2 ^ (IntBits - 1)) - 1
AV_NOPTS_VALUE == Int64Min
AV_TIME_BASE_Q == [num |-> 1, den |-> AV_TIME_BASE]

(* ---------------------------- input domains --------------------------- *)

Second == [num |-> 1, den |-> 1]
HalfSecond == [num |-> 1, den |-> 2]

\* What the environment of one run can deliver.  A run is checked in each
\* of these environments; each varies one part of the input:
\*   pts    pkt.pts as the demuxer delivers it
\*   durs   pkt.duration, in units of the track's time base
\*   lats   microseconds the publish call (and all else between the pacer's
\*          wait and the reading of the clock) takes
\*   tbs    the audio track's time base
\*   nfiles the most files the directory holds
\* "loop" varies the playlist (up to three files, in every order) and keeps
\* the packets plain; the others play one file per cycle and vary the
\* timestamps, the publish latency or the time base.
Environments ==
    { [name |-> "loop", pts |-> {0}, durs |-> {1}, lats |-> {0},
       tbs |-> {Second}, nfiles |-> 3],
      [name |-> "map", pts |-> {-1, 0, 1}, durs |-> {0, 1}, lats |-> {0},
       tbs |-> {Second}, nfiles |-> 1],
      [name |-> "nopts", pts |-> {AV_NOPTS_VALUE, 1}, durs |-> {1}, lats |-> {0},
       tbs |-> {Second}, nfiles |-> 1],
      [name |-> "pace", pts |-> {0, 1}, durs |-> {0, 1}, lats |-> {0, 1200000},
       tbs |-> {Second}, nfiles |-> 1],
      [name |-> "units", pts |-> {0, 1}, durs |-> {1}, lats |-> {0},
       tbs |-> {Second, HalfSecond}, nfiles |-> 1] }

VARIABLES
    env,            \* the environment of this run, fixed
    pc,             \* where the thread is: main, run, scan, open, read, exited
    exit_code,      \* main's return value, -1 while the process runs
    output_ctx,     \* output_ctx # nullptr
    pb,             \* output_ctx->pb # nullptr: the connection is open
    audio_stream,   \* audio_stream # nullptr
    offset_pts,     \* member offset_pts
    start_time,     \* member start_time
    lag,            \* member lag, microseconds
    now,            \* the wall clock, microseconds
    files,          \* run's local: the shuffled playlist
    idx,            \* position of the for loop in files
    input_ctx,      \* stream_file's local input_ctx # nullptr
    tb,             \* stream_file's local input_time_base
    first_pkt,      \* stream_file's local first_pkt
    last_pts,       \* stream_file's local last_pts
    last_duration,  \* stream_file's local last_duration
    last,           \* the packet handed to av_interleaved_write_frame last
    nsent,          \* packets handed to av_interleaved_write_frame so far
    outcomes,       \* how each stream_file call of this cycle ended
    headers,        \* successful avformat_write_header calls
    connects,       \* successful avio_open2 calls
    trailers,       \* av_write_trailer calls
    errlog,         \* "Error: ..." lines written by run
    fatallog,       \* "Fatal error: ..." lines written by main
    cause,          \* why main returned: usage, connect, scan, write, none
    scans,          \* get_m4a_files calls
    attempts,       \* stream_file calls
    skipped,        \* non-audio packets dropped by this stream_file call
    handles         \* input contexts opened and not yet closed

vars == <<env, pc, exit_code, output_ctx, pb, audio_stream, offset_pts, start_time,
          lag, now, files, idx, input_ctx, tb, first_pkt, last_pts,
          last_duration, last, nsent, outcomes, headers, connects,
          trailers, errlog, fatallog, cause, scans, attempts, skipped, handles>>

(* ------------------------------ helpers ------------------------------- *)

\* int64_t arithmetic: the result of + and - as the add and sub instructions
\* leave it (the build of README.md, make icefeed, has no trapping flags).
Wrap(x) == ((x - Int64Min) % (2 ^ IntBits)) + Int64Min

Max(a, b) == IF a >= b THEN a ELSE b

\* av_rescale_rnd(a, b, c, AV_ROUND_NEAR_INF): a * b / c, halves away from 0.
RescaleRnd(a, b, c) ==
    IF a >= 0 THEN (a * b + c \div 2) \div c
    ELSE -(((-Max(a, -Int64Max)) * b + c \div 2) \div c)

\* av_rescale_q(a, bq, cq)
RescaleQ(a, bq, cq) == RescaleRnd(a, bq.num * cq.den, bq.den * cq.num)

\* A handed packet: first whether it is its track's first audio packet, src
\* pkt.pts as read, pts as mapped, slept the pacer's wait before it, ok
\* whether the write succeeded, time_base the time base of its track.
NoPkt ==
    [first |-> FALSE, src |-> 0, pts |-> 0, duration |-> 0, slept |-> 0,
     ok |-> TRUE, time_base |-> [num |-> 0, den |-> 1]]
NoTb == [num |-> 0, den |-> 1]

\* The orders std::shuffle can leave the listed files in.
Shuffles(S) ==
    {f \in [1 .. Cardinality(S) -> S] : \A i, j \in DOMAIN f : i # j => f[i] # f[j]}

\* What fs::directory_iterator can list: the first k of at most n files.
Listings(n) == {1 .. k : k \in 0 .. n}

(* ------------------------------- Init --------------------------------- *)

Init ==
    /\ env \in Environments
    /\ pc = "main"
    /\ exit_code = -1
    /\ output_ctx = FALSE
    /\ pb = FALSE
    /\ audio_stream = FALSE
    /\ offset_pts = 0
    /\ start_time = 0
    /\ lag = 0
    /\ now = Epoch
    /\ files = <<>>
    /\ idx = 0
    /\ input_ctx = FALSE
    /\ tb = NoTb
    /\ first_pkt = FALSE
    /\ last_pts = 0
    /\ last_duration = 0
    /\ last = NoPkt
    /\ nsent = 0
    /\ outcomes = <<>>
    /\ headers = 0
    /\ connects = 0
    /\ trailers = 0
    /\ errlog = 0
    /\ fatallog = 0
    /\ cause = "none"
    /\ scans = 0
    /\ attempts = 0
    /\ skipped = 0
    /\ handles = 0

(* --------------------- exceptions and their handlers ------------------ *)

\* Mutant: a destructor that never writes the trailer.
DestructorNone(ctx, p) == 0

\* ~IcecastStreamer: the number of trailers it writes.
Destructor(ctx, p) == IF ctx /\ p THEN 1 ELSE 0

\* Mutant: run's generic handler catches ErrorWritePacket too.
RecoverableAll(e) == TRUE

\* Mutant: run catches nothing, every exception reaches main.
RecoverableNone(e) == FALSE

\* run's handlers: ErrorWritePacket is thrown again, any other
\* std::exception is logged and the loop goes on.
Recoverable(e) == e # "ErrorWritePacket"

\* Mutant: a loop that scans and shuffles again after every track.
NextTrackRescan ==
    /\ idx' = 0
    /\ pc' = "scan"
    /\ files' = <<>>

\* The for loop of run moves to the next file, or the while loop scans again.
NextTrack ==
    IF idx < Len(files)
    THEN /\ idx' = idx + 1
         /\ pc' = "open"
         /\ UNCHANGED files
    ELSE /\ idx' = 0
         /\ pc' = "scan"
         /\ files' = <<>>

\* Mutant: main's handler returns 0.
MainCatchExitZero(ctx, p, t, why) ==
    /\ trailers' = trailers + (IF ctx /\ p THEN 1 ELSE 0)
    /\ output_ctx' = ctx
    /\ pb' = IF ctx /\ p THEN FALSE ELSE p
    /\ fatallog' = fatallog + 1
    /\ exit_code' = 0
    /\ cause' = why
    /\ pc' = "exited"
    /\ now' = t
    /\ UNCHANGED <<errlog, idx, files>>

\* main's handler: the streamer (output_ctx is ctx, its pb is p) is destroyed
\* while the stack unwinds, "Fatal error" is logged, main returns 1.
MainCatch(ctx, p, t, why) ==
    /\ trailers' = trailers + Destructor(ctx, p)
    /\ output_ctx' = ctx
    /\ pb' = IF ctx /\ p THEN FALSE ELSE p
    /\ fatallog' = fatallog + 1
    /\ exit_code' = 1
    /\ cause' = why
    /\ pc' = "exited"
    /\ now' = t
    /\ UNCHANGED <<errlog, idx, files>>

\* run's handler for a recoverable exception: log, sleep 1 s, next file.
RunCatch(t) ==
    /\ errlog' = errlog + 1
    /\ now' = t + Backoff
    /\ NextTrack
    /\ UNCHANGED <<trailers, output_ctx, pb, fatallog, exit_code, cause>>

\* Exception e leaves stream_file at clock t.
Thrown(e, t) ==
    IF Recoverable(e) THEN RunCatch(t) ELSE MainCatch(output_ctx, pb, t, "write")

\* stream_file's locals once the call is over.
LocalsGone ==
    /\ input_ctx' = FALSE
    /\ tb' = NoTb
    /\ first_pkt' = FALSE
    /\ last_pts' = 0
    /\ last_duration' = 0
    /\ skipped' = 0

trackLocals ==
    <<input_ctx, tb, first_pkt, last_pts, last_duration, skipped, handles>>
counters == <<scans, attempts>>

(* ------------------------------- main --------------------------------- *)

\* main with argc < 3: the usage line, return 1.
MainUsage ==
    /\ pc = "main"
    /\ \E argc \in 1 .. 2 :
        /\ argc < 3
        /\ pc' = "exited"
        /\ exit_code' = 1
        /\ cause' = "usage"
    /\ UNCHANGED <<env, output_ctx, pb, audio_stream, offset_pts, start_time, lag,
                   now, files, idx, trackLocals, last, nsent, outcomes, headers,
                   connects, trailers, errlog, fatallog, counters>>

\* main with argc >= 3: the streamer is constructed and run is entered.
MainStart ==
    /\ pc = "main"
    /\ \E argc \in 3 .. 4 :
        /\ ~(argc < 3)
        /\ pc' = "run"
    /\ UNCHANGED <<env, exit_code, output_ctx, pb, audio_stream, offset_pts,
                   start_time, lag, now, files, idx, trackLocals, last, nsent,
                   outcomes, headers, connects, trailers, errlog, fatallog, cause,
                   counters>>

(* -------------------------------- run --------------------------------- *)

\* run: start_time is read, init_icecast_connection succeeds.
RunConnect ==
    /\ pc = "run"
    /\ start_time' = now
    /\ output_ctx' = TRUE
    /\ pb' = TRUE
    /\ connects' = connects + 1
    /\ pc' = "scan"
    /\ UNCHANGED <<env, exit_code, audio_stream, offset_pts, lag, now, files, idx,
                   trackLocals, last, nsent, outcomes, headers, trailers, errlog,
                   fatallog, cause, counters>>

\* run: init_icecast_connection throws, from avformat_alloc_output_context2
\* (no context) or from avio_open2 (a context without pb).
RunConnectFail ==
    /\ pc = "run"
    /\ start_time' = now
    /\ \E ctx \in BOOLEAN : MainCatch(ctx, FALSE, now, "connect")
    /\ UNCHANGED <<env, audio_stream, offset_pts, lag, trackLocals, last, nsent,
                   outcomes, headers, connects, counters>>

\* get_m4a_files throws (fs::directory_iterator on an unreadable directory):
\* the call is outside run's try block.
ScanFail ==
    /\ pc = "scan"
    /\ scans < MaxScans
    /\ scans' = scans + 1
    /\ MainCatch(output_ctx, pb, now, "scan")
    /\ UNCHANGED <<env, audio_stream, offset_pts, start_time, lag, trackLocals, last,
                   nsent, outcomes, headers, connects, attempts>>

\* get_m4a_files returns no file: "No M4A files found", sleep 5 s, continue.
ScanEmpty ==
    /\ pc = "scan"
    /\ scans < MaxScans
    /\ scans' = scans + 1
    /\ {} \in Listings(env.nfiles)
    /\ now' = now + EmptyWait
    /\ UNCHANGED <<env, pc, exit_code, output_ctx, pb, audio_stream, offset_pts,
                   start_time, lag, files, idx, trackLocals, last, nsent,
                   outcomes, headers, connects, trailers, errlog, fatallog, cause,
                   attempts>>

\* get_m4a_files returns files, shuffle_playlist orders them, the for loop
\* starts.
ScanShuffle ==
    /\ pc = "scan"
    /\ scans < MaxScans
    /\ scans' = scans + 1
    /\ \E L \in Listings(env.nfiles) \ {{}} : \E f \in Shuffles(L) : files' = f
    /\ idx' = 1
    /\ outcomes' = <<>>
    /\ pc' = "open"
    /\ UNCHANGED <<env, exit_code, output_ctx, pb, audio_stream, offset_pts,
                   start_time, lag, now, trackLocals, last, nsent, headers,
                   connects, trailers, errlog, fatallog, cause, attempts>>

(* ----------------------------- stream_file ---------------------------- *)

\* Mutant: a pacer that sleeps the whole duration, whatever the lag.
DelayForFull(d, base, lg) ==
    IF d > 0 THEN RescaleQ(d, base, AV_TIME_BASE_Q) ELSE 0

\* Mutant: a pacer that never sleeps.
DelayForNone(d, base, lg) == 0

\* The pacer: microseconds slept before a packet of duration d (time base
\* base) when the lag is lg.
DelayFor(d, base, lg) ==
    IF d > 0
    THEN LET sleep_us == RescaleQ(d, base, AV_TIME_BASE_Q)
             diff_us == sleep_us - lg
         IN  IF diff_us > 0 THEN diff_us ELSE 0
    ELSE 0

\* Mutant: the first-packet quirk left out.
AbsorbNone(first, p, off) == off

\* Mutant: the quirk applied to every packet of a track, not the first only.
AbsorbEvery(first, p, off) == IF p < 0 THEN Wrap(off - p) ELSE off

\* offset_pts after the first-packet quirk: a negative pts of the track's
\* first audio packet is taken out of the offset.
Absorb(first, p, off) == IF first /\ p < 0 THEN Wrap(off - p) ELSE off

\* Mutant: a mapping that adds the seconds the thread is behind.
MapPtsByLag(p, off) == Wrap(p + off + (lag \div AV_TIME_BASE))

\* pkt.pts = pkt.pts + offset_pts
MapPts(p, off) == Wrap(p + off)

\* Mutant: the running counter of the older variant, last pts + 1.
CarryForwardPlusOne(lp, ld) == Wrap(lp + 1)

\* offset_pts = last_pts + last_duration, after the packet loop.
CarryForward(lp, ld) == Wrap(lp + ld)

\* Mutant: a lag measured from the clock's zero, not from start_time.
LagAfterNoStart(t, st, mapped, base) == t - RescaleQ(mapped, base, AV_TIME_BASE_Q)

\* lag = now - start_time - microseconds(t_track_us)
LagAfter(t, st, mapped, base) == t - st - RescaleQ(mapped, base, AV_TIME_BASE_Q)

\* Input contexts a stream_file call opens when it leaves at exit: none when
\* avformat_open_input itself fails, one otherwise.
OpenInput(exit) == IF exit = "open_input" THEN 0 ELSE 1

\* Mutant: no exit of stream_file closes the input.
CloseInputNone(exit) == 0

\* avformat_close_input calls on the way out of stream_file at exit.
CloseInput(exit) == IF exit = "open_input" THEN 0 ELSE 1

\* avformat_open_input, avformat_find_stream_info or av_find_best_stream
\* fails: runtime_error, caught by run.
OpenFail ==
    /\ pc = "open"
    /\ attempts < MaxAttempts
    /\ attempts' = attempts + 1
    /\ \E kind \in {"open_input", "stream_info", "no_audio"} :
        /\ outcomes' = Append(outcomes, "open_fail")
        /\ handles' = handles + OpenInput(kind) - CloseInput(kind)
    /\ Thrown("runtime_error", now)
    /\ LocalsGone
    /\ UNCHANGED <<env, audio_stream, offset_pts, start_time, lag, last, nsent,
                   headers, connects, scans>>

\* The track opens, there is no output stream yet, and avformat_new_stream,
\* avcodec_parameters_copy or avformat_write_header fails: the input is
\* closed, runtime_error, caught by run.
HeaderFail ==
    /\ pc = "open"
    /\ attempts < MaxAttempts
    /\ attempts' = attempts + 1
    /\ ~audio_stream
    /\ \E kind \in {"new_stream", "codecpar", "write_header"} :
        /\ audio_stream' = (kind # "new_stream")
        /\ outcomes' = Append(outcomes, kind)
        /\ handles' = handles + OpenInput(kind) - CloseInput(kind)
    /\ Thrown("runtime_error", now)
    /\ LocalsGone
    /\ UNCHANGED <<env, offset_pts, start_time, lag, last, nsent, headers, connects,
                   scans>>

\* The track opens; the first one to do so creates the output stream and
\* writes the header.  The packet loop is entered.
OpenOk ==
    /\ pc = "open"
    /\ attempts < MaxAttempts
    /\ attempts' = attempts + 1
    /\ input_ctx' = TRUE
    /\ handles' = handles + OpenInput("none")
    /\ \E base \in env.tbs : tb' = base
    /\ audio_stream' = TRUE
    /\ headers' = IF audio_stream THEN headers ELSE headers + 1
    /\ first_pkt' = TRUE
    /\ last_pts' = 0
    /\ last_duration' = 0
    /\ skipped' = 0
    /\ pc' = "read"
    /\ UNCHANGED <<env, exit_code, output_ctx, pb, offset_pts, start_time, lag, now,
                   files, idx, last, nsent, outcomes, connects, trailers, errlog,
                   fatallog, cause, scans>>

\* av_read_frame delivers a packet of another stream: it is dropped.
ReadOther ==
    /\ pc = "read"
    /\ skipped < MaxOther
    /\ skipped' = skipped + 1
    /\ UNCHANGED <<env, pc, exit_code, output_ctx, pb, audio_stream, offset_pts,
                   start_time, lag, now, files, idx, input_ctx, tb, first_pkt,
                   last_pts, last_duration, last, nsent, outcomes, headers,
                   connects, trailers, errlog, fatallog, cause, scans, attempts,
                   handles>>

\* av_read_frame delivers an audio packet: the pacer's wait, the mapping of
\* its pts, a successful av_interleaved_write_frame, the new lag.
ReadAudio ==
    /\ pc = "read"
    /\ nsent < MaxPackets
    /\ nsent' = nsent + 1
    /\ \E p \in env.pts, d \in env.durs, l \in env.lats :
        LET w == DelayFor(d, tb, lag)
            off == Absorb(first_pkt, p, offset_pts)
            mapped == MapPts(p, off)
            t == now + w + l
        IN  /\ offset_pts' = off
            /\ last_pts' = mapped
            /\ last_duration' = d
            /\ last' = [first |-> first_pkt, src |-> p, pts |-> mapped,
                        duration |-> d, slept |-> w, ok |-> TRUE,
                        time_base |-> tb]
            /\ now' = t
            /\ lag' = LagAfter(t, start_time, mapped, tb)
    /\ first_pkt' = FALSE
    /\ UNCHANGED <<env, pc, exit_code, output_ctx, pb, audio_stream, start_time,
                   files, idx, input_ctx, tb, skipped, handles, outcomes,
                   headers, connects, trailers, errlog, fatallog, cause,
                   counters>>

\* As ReadAudio, but av_interleaved_write_frame fails: the input is closed
\* and ErrorWritePacket is thrown.
ReadAudioWriteFail ==
    /\ pc = "read"
    /\ nsent < MaxPackets
    /\ nsent' = nsent + 1
    /\ \E p \in env.pts, d \in env.durs, l \in env.lats :
        LET w == DelayFor(d, tb, lag)
            off == Absorb(first_pkt, p, offset_pts)
            mapped == MapPts(p, off)
        IN  /\ offset_pts' = off
            /\ last' = [first |-> first_pkt, src |-> p, pts |-> mapped,
                        duration |-> d, slept |-> w, ok |-> FALSE,
                        time_base |-> tb]
            /\ Thrown("ErrorWritePacket", now + w + l)
    /\ LocalsGone
    /\ outcomes' = Append(outcomes, "write_fail")
    /\ handles' = handles - CloseInput("write_fail")
    /\ UNCHANGED <<env, audio_stream, start_time, lag, headers, connects, counters>>

\* Mutant: a packet loop that tells a read error from the end of the file
\* and throws runtime_error for it.
ReadEndThrows ==
    /\ pc = "read"
    /\ \E ret \in {"eof", "demux_error"} :
        /\ outcomes' = Append(outcomes, ret)
        /\ handles' = handles - 1
        /\ IF ret = "eof"
           THEN /\ offset_pts' = Wrap(last_pts + last_duration)
                /\ NextTrack
                /\ UNCHANGED <<now, errlog, trailers, output_ctx, pb, fatallog,
                               exit_code, cause>>
           ELSE /\ offset_pts' = offset_pts
                /\ Thrown("runtime_error", now)
    /\ LocalsGone
    /\ UNCHANGED <<env, audio_stream, start_time, lag, last, nsent, headers,
                   connects, counters>>

\* av_read_frame returns a negative value, the end of the file or a read
\* error alike: the loop ends, the offset is carried forward, the input is
\* closed, stream_file returns.
ReadEnd ==
    /\ pc = "read"
    /\ \E ret \in {"eof", "demux_error"} :
        /\ outcomes' = Append(outcomes, ret)
        /\ handles' = handles - CloseInput(ret)
    /\ offset_pts' = CarryForward(last_pts, last_duration)
    /\ LocalsGone
    /\ NextTrack
    /\ UNCHANGED <<env, exit_code, output_ctx, pb, audio_stream, start_time, lag,
                   now, last, nsent, headers, connects, trailers, errlog,
                   fatallog, cause, counters>>

(* --------------------------- specification ---------------------------- *)

Next ==
    \/ MainUsage
    \/ MainStart
    \/ RunConnect
    \/ RunConnectFail
    \/ ScanFail
    \/ ScanEmpty
    \/ ScanShuffle
    \/ OpenFail
    \/ HeaderFail
    \/ OpenOk
    \/ ReadOther
    \/ ReadAudio
    \/ ReadAudioWriteFail
    \/ ReadEnd

Spec == Init /\ [][Next]_vars

(* ------------------------------ properties ---------------------------- *)

\* This step hands a packet to av_interleaved_write_frame.
Handed == nsent' = nsent + 1

\* This step ends a stream_file call with outcome o.
EndsWith(o) == outcomes' = Append(outcomes, o)

\* After this step run goes on with the next file of the playlist, or scans
\* again when there is none.
GoesOn ==
    /\ exit_code' = -1
    /\ ~input_ctx'
    /\ IF idx < Len(files)
       THEN pc' = "open" /\ idx' = idx + 1 /\ files' = files
       ELSE pc' = "scan"

\* C1: the mapped timestamps handed to the publisher are strictly increasing
\* over the whole run, across track boundaries too.
C1_Monotonic == [][(Handed /\ nsent >= 1) => last'.pts > last.pts]_vars

\* C2: when a track that handed at least one packet ends, the offset becomes
\* the last handed timestamp plus the last packet's duration, and nothing
\* changes it until the next track's packets are read.
C2_CarryForward ==
    [][ /\ ((EndsWith("eof") \/ EndsWith("demux_error")) /\ ~first_pkt)
            => offset_pts' = last.pts + last.duration
        /\ (pc \in {"scan", "open"}) => offset_pts' = offset_pts ]_vars

\* C2 witness: a track has ended after a packet of positive duration and the
\* next track is open, none of its packets read yet.
C2_Witness ==
    /\ pc = "read"
    /\ first_pkt
    /\ nsent >= 1
    /\ last.duration > 0
    /\ offset_pts = last.pts + last.duration
    /\ offset_pts > 0

\* C3: a track's first audio packet with a negative source timestamp is
\* mapped to the offset the track started with.
C3_Absorb ==
    [][(Handed /\ first_pkt /\ last'.src < 0 /\ last'.src # AV_NOPTS_VALUE)
        => last'.pts = offset_pts]_vars

\* C3 witness: a first packet with source timestamp -1 was handed at a
\* positive carry-forward offset.
C3_Witness ==
    /\ last.first
    /\ last.src = -1
    /\ last.pts > 0
    /\ nsent >= 2

\* C4: once a write has failed the process has ended with status 1, the
\* track is closed, and nothing happens after: no packet, no further track.
C4_FatalWrite ==
    /\ [](~last.ok =>
            /\ pc = "exited"
            /\ exit_code = 1
            /\ cause = "write"
            /\ ~input_ctx)
    /\ [][pc # "exited"]_vars

\* C4 witness: the write of a packet that is not its track's first failed.
C4_Witness ==
    /\ ~last.ok
    /\ ~last.first
    /\ pc = "exited"

\* C5: a failure to open a track or to find its audio stream is logged, run
\* sleeps 1 s and goes on with the next file; no packet is handed.
C5_OpenRecoverable ==
    [][EndsWith("open_fail") =>
        /\ errlog' = errlog + 1
        /\ now' = now + Backoff
        /\ nsent' = nsent
        /\ GoesOn]_vars

\* C5 witness: the first file of a playlist failed to open and the second
\* was streamed to its end.
C5_Witness ==
    /\ Len(outcomes) >= 2
    /\ outcomes[1] = "open_fail"
    /\ outcomes[2] = "eof"
    /\ nsent >= 1
    /\ pc # "exited"

\* C6 as stated: a read error is logged once, the 1 s backoff is taken, the
\* track is closed and run goes on.
C6_DemuxLogged ==
    [][EndsWith("demux_error") =>
        /\ errlog' = errlog + 1
        /\ now' = now + Backoff
        /\ GoesOn]_vars

\* C6 amended: a read error ends the track as the end of the file does: the
\* track is closed, the offset is carried forward, nothing is logged, no
\* backoff is taken, and run goes on with the next file.
C6_DemuxAsEnd ==
    [][EndsWith("demux_error") =>
        /\ errlog' = errlog
        /\ now' = now
        /\ offset_pts' = Wrap(last_pts + last_duration)
        /\ GoesOn]_vars

\* C6 witness: a playlist of a good, a corrupt and a good track, each
\* handing one packet, the good ones streamed to their end.
C6_Witness ==
    /\ outcomes = <<"eof", "demux_error", "eof">>
    /\ nsent = 3
    /\ last.ok
    /\ errlog = 0

\* C7: a failure to open the connection or to write the header ends the
\* process with status 1.
C7_EstablishFatal ==
    [][((pc = "run" /\ connects' = connects) \/ EndsWith("write_header"))
        => (pc' = "exited" /\ exit_code' = 1)]_vars

\* C8 as stated: the process ends only on a usage error, a connection
\* failure or a write failure.
C8_ExitCauses == pc = "exited" => cause \in {"usage", "connect", "write"}

\* C8 amended: the process ends with status 1, on a usage error, a connection
\* failure, a write failure or a failed directory scan; a scan that finds no
\* file waits 5 s and scans again.
C8_ScanFatal ==
    /\ [](pc = "exited" =>
            /\ exit_code = 1
            /\ cause \in {"usage", "connect", "write", "scan"})
    /\ [](pc # "exited" => exit_code = -1 /\ cause = "none")
    /\ [][(pc = "scan" /\ pc' = "scan") =>
            /\ now' = now + EmptyWait
            /\ attempts' = attempts]_vars
    /\ [][(pc = "scan" /\ pc' = "exited") => cause' = "scan"]_vars

\* C8 witness: the process has ended on a failed directory scan.
C8_Witness ==
    /\ pc = "exited"
    /\ cause = "scan"
    /\ exit_code = 1
    /\ scans >= 2

\* C9: no trailer is written while the process runs; once it has ended, one
\* trailer was written if the connection had been opened, none otherwise.
C9_FinalizeOnce ==
    /\ pc # "exited" => trailers = 0
    /\ (pc = "exited" /\ connects > 0) => (trailers = 1 /\ ~pb)
    /\ (pc = "exited" /\ connects = 0) => trailers = 0

\* C9 witness: the process ended on a write failure after the header was
\* written, with one trailer.
C9_Witness ==
    /\ pc = "exited"
    /\ cause = "write"
    /\ headers = 1
    /\ trailers = 1

\* C10: before a packet of positive duration the thread sleeps the duration
\* in microseconds less the lag when that is positive, and not at all
\* otherwise; a packet of duration 0 or less causes no sleep.
C10_Pacer ==
    [][Handed =>
        LET d == last'.duration
            us == RescaleQ(d, tb, AV_TIME_BASE_Q)
        IN  /\ (d > 0 /\ us - lag > 0) => last'.slept = us - lag
            /\ (d > 0 /\ us - lag <= 0) => last'.slept = 0
            /\ d <= 0 => last'.slept = 0
            /\ (us = 1000000 /\ lag = 0) => last'.slept = 1000000
            /\ (us = 1000000 /\ lag = 1200000) => last'.slept = 0
            /\ now' >= now + last'.slept]_vars

\* C10 witness: a packet of one second was handed without any sleep, the
\* thread being a second or more behind.
C10_Witness ==
    /\ nsent >= 2
    /\ last.duration = 1
    /\ last.slept = 0
    /\ lag >= 1000000
    /\ env.name = "pace"

\* C11: lag changes only in a step whose write succeeded, to the clock's
\* reading less start_time less the mapped timestamp of that packet in
\* microseconds; every other step (a failed write, a dropped packet, the end
\* of a track, a failed open, a scan, the empty-playlist wait) leaves it as
\* it is, and start_time is not assigned again once run has read the clock.
C11_LagUpdate ==
    [][ /\ (Handed /\ last'.ok)
            => lag' = (now' - start_time)
                      - RescaleQ(last'.pts, tb, AV_TIME_BASE_Q)
        /\ ~(Handed /\ last'.ok) => lag' = lag
        /\ pc # "run" => start_time' = start_time
        /\ pc = "run" => start_time' = now ]_vars

\* C11 witness: a packet was published late in one track, a later track
\* failed to open, and the first packet of the track after that has just
\* been published with the lag still there.
C11_Witness ==
    /\ pc = "read"
    /\ last.ok
    /\ last.first
    /\ nsent >= 2
    /\ errlog >= 1
    /\ lag >= 1200000
    /\ start_time = Epoch

\* C12: an audio packet read with pkt.pts = AV_NOPTS_VALUE is handed with
\* the timestamp of the packet handed before it plus 1.
C12_NoPtsCounter ==
    [][(Handed /\ nsent >= 1 /\ last'.src = AV_NOPTS_VALUE)
        => last'.pts = last.pts + 1]_vars

\* C13: the timestamp a packet is handed with, and the continuity state
\* after every step (offset_pts, first_pkt, last_pts, last_duration), are
\* functions of the continuity state before the step and of what the step
\* read (the packet's pts and duration, the end of the track) and of nothing
\* else: not of the clock, the sleep, the publish latency or lag.  Two runs
\* that start with the same continuity state and read the same tracks and
\* packets therefore hand the same timestamps.
C13_Determinism ==
    [][ /\ Handed =>
            LET p == last'.src
                off == IF first_pkt /\ p < 0 THEN Wrap(offset_pts - p)
                       ELSE offset_pts
            IN  /\ last'.pts = Wrap(p + off)
                /\ offset_pts' = off
        /\ (Handed /\ last'.ok) =>
            /\ last_pts' = last'.pts
            /\ last_duration' = last'.duration
            /\ ~first_pkt'
        /\ (EndsWith("eof") \/ EndsWith("demux_error"))
            => offset_pts' = Wrap(last_pts + last_duration)
        /\ ~(Handed \/ EndsWith("eof") \/ EndsWith("demux_error"))
            => offset_pts' = offset_pts
        /\ (pc = "open" /\ pc' = "read")
            => (first_pkt' /\ last_pts' = 0 /\ last_duration' = 0)
        /\ (pc = "read" /\ pc' = "read" /\ ~Handed)
            => UNCHANGED <<first_pkt, last_pts, last_duration>> ]_vars

\* C13 witness: the first packet of a later track has been handed, with a
\* timestamp past 0, in a run whose publish calls took 1.2 s and left the
\* thread behind.
C13_Witness ==
    /\ env.name = "pace"
    /\ nsent >= 2
    /\ last.first
    /\ last.ok
    /\ last.pts >= 1
    /\ lag >= 1200000

\* C14: in a cycle the playlist holds each scanned file once; stream_file is
\* called for files[1], files[2], ... in that order, once each (the k-th
\* call of the cycle is for files[k]); the directory is scanned again only
\* after the call for the last file has ended, and then it always is (run
\* does not return); a scan that finds nothing is followed by 5 s of sleep
\* and another scan, no stream_file call in between.
C14_PlayCycle ==
    /\ [](\A i, j \in DOMAIN files : i # j => files[i] # files[j])
    /\ [](pc \in {"open", "read"} =>
            /\ idx \in 1 .. Len(files)
            /\ Len(outcomes) = idx - 1)
    /\ [][attempts' = attempts + 1 => pc = "open"]_vars
    /\ [][(pc \in {"open", "read"} /\ pc' = "open")
            => (idx' = idx + 1 /\ files' = files /\ Len(outcomes') = idx)]_vars
    /\ [][(pc \in {"open", "read"} /\ pc' = "scan")
            => (idx = Len(files) /\ Len(outcomes') = Len(files))]_vars
    /\ [][(pc \in {"open", "read"} /\ idx = Len(files) /\ Len(outcomes') = idx)
            => pc' \in {"scan", "exited"}]_vars
    /\ [][(pc \in {"open", "read"} /\ pc' = "exited") => cause' = "write"]_vars
    /\ [][scans' = scans + 1 => pc = "scan"]_vars
    /\ [][(pc = "scan" /\ pc' = "open") => (idx' = 1 /\ outcomes' = <<>>
                                            /\ Len(files') >= 1)]_vars
    /\ [][(pc = "scan" /\ pc' = "scan")
            => (now' = now + EmptyWait /\ attempts' = attempts
                /\ ~input_ctx' /\ files' = <<>>)]_vars

\* C14 witness: a playlist of two files has been played to its end, one
\* call each, and the first file of the next playlist is about to be opened.
C14_Witness ==
    /\ env.name = "loop"
    /\ scans = 2
    /\ attempts = 2
    /\ pc = "open"
    /\ idx = 1
    /\ outcomes = <<>>

\* C15: offset_pts changes only in the step that reads a track's first audio
\* packet (and then only for a negative pts) and in the step that ends a
\* track's packet loop; the step for any later audio packet, and the step
\* for any packet of another stream, leave it as it is.
C15_OffsetFrame ==
    [][ /\ offset_pts' # offset_pts
            => \/ (Handed /\ first_pkt /\ last'.src < 0)
               \/ EndsWith("eof")
               \/ EndsWith("demux_error")
        /\ (Handed /\ ~first_pkt) => offset_pts' = offset_pts
        /\ skipped' = skipped + 1 => offset_pts' = offset_pts ]_vars

\* C15 witness: in a track that began at an offset above 0, a packet of
\* another stream was dropped and a later audio packet with pts -1 was
\* handed at offset - 1, the offset being what it was.
C15_Witness ==
    /\ pc = "read"
    /\ ~last.first
    /\ last.src = -1
    /\ skipped = 1
    /\ offset_pts > 0
    /\ last.pts = offset_pts - 1

\* C16: a stream_file call that fails to open its track, or that opens it
\* and reaches the end of the packet loop without having read an audio
\* packet, leaves offset_pts at the value the track before it left.
C16_NoReset ==
    [][ \/ EndsWith("open_fail")
        \/ (first_pkt /\ (EndsWith("eof") \/ EndsWith("demux_error")))
        => offset_pts' = offset_pts ]_vars

\* C17: when a track's first audio packet has pts 0 or a lead-in below 0 and
\* the offset is the end of the packet handed last (in the track before),
\* the packet is handed at the real time at which that packet ended: the
\* mapped pts in microseconds of its own time base equals the last packet's
\* end in microseconds of the last packet's time base.
C17_UnitsNormalised ==
    [][(/\ Handed
        /\ first_pkt
        /\ nsent >= 1
        /\ last.ok
        /\ offset_pts = last.pts + last.duration
        /\ last'.src <= 0
        /\ last'.src # AV_NOPTS_VALUE)
        => RescaleQ(last'.pts, tb, AV_TIME_BASE_Q)
           = RescaleQ(last.pts + last.duration, last.time_base, AV_TIME_BASE_Q)]_vars

\* C18: the header is written successfully at most once, and whenever a
\* packet has been handed to av_interleaved_write_frame the header has been
\* written successfully before.
C18_HeaderFirst ==
    /\ headers <= 1
    /\ nsent >= 1 => headers = 1

\* C19: when an audio packet of positive duration is handed to the
\* publisher, the time since start_time is at least the packet's duration
\* in microseconds plus the mapped time in microseconds of the packet
\* published before it (0 when there is none); and the pacer's sleep is
\* left out for such a packet only when lag is at least its duration.
C19_NotAhead ==
    [][(Handed /\ last'.duration > 0) =>
        LET d_us == RescaleQ(last'.duration, tb, AV_TIME_BASE_Q)
            prev_us == IF nsent = 0 THEN 0
                       ELSE RescaleQ(last.pts, last.time_base, AV_TIME_BASE_Q)
        IN  /\ (now + last'.slept) - start_time >= d_us + prev_us
            /\ now' - start_time >= d_us + prev_us
            /\ last'.slept = 0 => lag >= d_us]_vars

\* C19 witness: a packet was published 0.2 s late, and the next one, one
\* second long, has been handed after a sleep of the remaining 0.8 s.
C19_Witness ==
    /\ env.name = "pace"
    /\ nsent >= 2
    /\ last.ok
    /\ last.duration = 1
    /\ last.slept = 800000

\* C20: never more than one input context is open; none is open when the
\* thread is anywhere but in a track's packet loop, so each one opened has
\* been closed, once, when stream_file is left by whatever exit, before the
\* next stream_file call and before main returns; the count of open
\* contexts never falls below 0 (nothing is closed twice).
C20_HandleDiscipline ==
    /\ handles \in {0, 1}
    /\ handles = (IF input_ctx THEN 1 ELSE 0)
    /\ pc # "read" => handles = 0

\* C20 witness: one stream_file call ended on a failed open or a failed
\* header, a later one on a failed write after a packet had been published,
\* and main has returned.
C20_Witness ==
    /\ pc = "exited"
    /\ cause = "write"
    /\ errlog >= 1
    /\ nsent >= 2
    /\ handles = 0

====
